---- MODULE Spec2Model ----
(***************************************************************************)
(* TubeAnalytics Pro: the actor's main loop (src/src/main.py), the data    *)
(* fetcher (src/src/youtube_fetcher.py), the intelligence analyzer         *)
(* (src/src/intelligence_analyzer.py) and the two report generators        *)
(* (src/src/report_generator.py), as one state machine.                    *)
(*                                                                         *)
(* The program is one asyncio task.  A state of the model is the task      *)
(* suspended in one of its awaits that reach the event loop (pc names the  *)
(* await), or at one of the synchronous gateway calls of analyze_channel.  *)
(* An action is the code that runs from one such point to the next, with   *)
(* the outcome of the external call chosen by \E.                          *)
(***************************************************************************)
EXTENDS Integers, Sequences, FiniteSets, TLC

\* ------------------------------------------------------------------ bounds
MaxChannels == 2
MaxCompetitors == 2
MaxListLen == 16
MaxVideos == 12
MaxDatedVideos == 3
MaxTitledVideos == 3
MaxChars == 4
MaxPlainVideos == 2

\* --------------------------------------------------------- program constants
TranscriptIdCap == 10
TopicVideoCap == 20
PromptTitleCap == 15
TopicsCap == 10
GapsCap == 10
KeywordsCap == 15
RecommendationsCap == 7
GapTopicCap == 10
FallbackTopicCount == 5
FallbackWordLen == 4
ConsistencyMinViews == 5
ConsistencyDefault == 50
GrowthMinViews == 10
PdfTopicCap == 5
PdfGapCap == 5
PdfKeywordCap == 10

\* ------------------------------------------------------------- sequences
Min(a, b) == IF a < b THEN a ELSE b

\* s[:n]
Take(s, n) == SubSeq(s, 1, Min(n, Len(s)))

\* s[n:]
Drop(s, n) == SubSeq(s, Min(n, Len(s)) + 1, Len(s))

RECURSIVE SumSeq(_)
SumSeq(s) == IF s = <<>> THEN 0 ELSE Head(s) + SumSeq(Tail(s))

Range(s) == {s[k] : k \in 1..Len(s)}

\* The sequences over S of length up to n.
RECURSIVE SeqsUpTo(_, _)
SeqsUpTo(S, n) ==
    IF n = 0 THEN {<<>>}
    ELSE LET shorter == SeqsUpTo(S, n - 1)
         IN shorter \cup {Append(s, x) : s \in shorter, x \in S}

\* ------------------------------------------------------ binary64 numbers
\* Python's float: a sign, and for a value other than zero the 53 bits of the
\* significand, most significant first, with the exponent e of the last of
\* them: the value is sign * N(m) * 2^e.  Every operation returns the exact
\* result rounded to the nearest such number, ties to even.  The recursions
\* go by halves or by chunks of bits, to stay shallow.
SignificandBits == 53
ChunkBits == 16

Zeros(k) == [i \in 1..k |-> 0]

\* The bits of n (0 <= n < 2^31), most significant first, none for 0.
Bits(n) ==
    LET L == Cardinality({k \in 0..30 : 2^k <= n})
    IN [i \in 1..L |-> (n \div 2^(L - i)) % 2]

\* The last k bits of n.
LowBits(n, k) == [i \in 1..k |-> (n \div 2^(k - i)) % 2]

\* The number a bit sequence stands for (below 2^31).
RECURSIVE Value(_)
Value(b) ==
    IF b = <<>> THEN 0
    ELSE IF Len(b) = 1 THEN b[1]
    ELSE LET k == Len(b) \div 2
         IN Value(SubSeq(b, 1, Len(b) - k)) * 2^k + Value(SubSeq(b, Len(b) - k + 1, Len(b)))

\* b without its leading zeros.
Strip(b) ==
    IF \A i \in 1..Len(b) : b[i] = 0 THEN <<>>
    ELSE SubSeq(b, CHOOSE i \in 1..Len(b) : b[i] = 1 /\ \A j \in 1..(i - 1) : b[j] = 0,
                Len(b))

\* a < b, for bit sequences of one length.
LessBits(a, b) == \E i \in 1..Len(a) : a[i] < b[i] /\ \A j \in 1..(i - 1) : a[j] = b[j]

\* a < b, for bit sequences without leading zeros.
Less(a, b) == IF Len(a) # Len(b) THEN Len(a) < Len(b) ELSE LessBits(a, b)

\* The bits of a - b - borrow modulo 2^Len(a), for sequences of one length.
RECURSIVE MinusBits(_, _, _)
MinusBits(a, b, borrow) ==
    IF a = <<>> THEN <<>>
    ELSE IF Len(a) = 1 THEN <<(a[1] - b[1] - borrow + 2) % 2>>
    ELSE LET k == Len(a) \div 2
             lowA == SubSeq(a, k + 1, Len(a))
             lowB == SubSeq(b, k + 1, Len(b))
             out == IF LessBits(lowA, lowB) \/ (lowA = lowB /\ borrow = 1) THEN 1 ELSE 0
         IN MinusBits(SubSeq(a, 1, k), SubSeq(b, 1, k), out) \o MinusBits(lowA, lowB, borrow)

\* a - b, for a >= b without leading zeros.
Minus(a, b) == Strip(MinusBits(a, Zeros(Len(a) - Len(b)) \o b, 0))

\* The bits of a * c + carry, for 0 < c < 2^15, a chunk of a at a time.
RECURSIVE TimesBits(_, _, _)
TimesBits(a, c, carry) ==
    IF a = <<>> THEN Bits(carry)
    ELSE LET k == IF Len(a) < ChunkBits THEN Len(a) ELSE ChunkBits
             d == Value(SubSeq(a, Len(a) - k + 1, Len(a))) * c + carry
         IN TimesBits(SubSeq(a, 1, Len(a) - k), c, d \div 2^k) \o LowBits(d % 2^k, k)

Float(sign, m, e) == [sign |-> sign, m |-> m, e |-> e]
FloatZero == Float(1, <<>>, 0)
IsZero(x) == x.m = <<>>

\* The number N(bits) * 2^e, plus a nonzero amount below its last bit when
\* sticky, rounded to 53 bits.
Round(sign, bits, e, sticky) ==
    LET b == Strip(bits)
        L == Len(b)
        kept == SubSeq(b, 1, SignificandBits)
        rest == sticky \/ \E i \in (SignificandBits + 2)..L : b[i] = 1
        up == b[SignificandBits + 1] = 1 /\ (rest \/ kept[SignificandBits] = 1)
        e2 == e + (L - SignificandBits)
        zero == CHOOSE i \in 1..SignificandBits :
                    kept[i] = 0 /\ \A j \in (i + 1)..SignificandBits : kept[j] = 1
    IN IF b = <<>> THEN FloatZero
       ELSE IF L <= SignificandBits THEN Float(sign, b \o Zeros(SignificandBits - L), e2)
       ELSE IF ~up THEN Float(sign, kept, e2)
       ELSE IF \A i \in 1..SignificandBits : kept[i] = 1
       THEN Float(sign, <<1>> \o Zeros(SignificandBits - 1), e2 + 1)
       ELSE Float(sign, SubSeq(kept, 1, zero - 1) \o <<1>> \o Zeros(SignificandBits - zero), e2)

\* The first chunks * 16 bits of r / q after the binary point (r < q < 2^15),
\* and what is left of r.
RECURSIVE Fraction(_, _, _)
Fraction(r, q, chunks) ==
    IF chunks = 0 THEN [bits |-> <<>>, r |-> r]
    ELSE LET next == Fraction((r * 2^ChunkBits) % q, q, chunks - 1)
         IN [bits |-> LowBits((r * 2^ChunkBits) \div q, ChunkBits) \o next.bits,
             r |-> next.r]

\* Enough chunks after the point for 55 significant bits of any p / q >= 2^-31.
FractionChunks == 6

\* p / q for integers p >= 0 and 0 < q < 2^15: int / int, and float() of the
\* decimal numeral p / 10^k.
FromRatio(p, q) ==
    LET f == Fraction(p % q, q, FractionChunks)
    IN Round(1, Bits(p \div q) \o f.bits, 0 - FractionChunks * ChunkBits, f.r # 0)

\* x * c for an integer c with 0 < c < 2^15.
TimesInt(x, c) ==
    IF IsZero(x) THEN x ELSE Round(x.sign, TimesBits(x.m, c, 0), x.e, FALSE)

\* x * 10^6 and x * 10^9: the exact product, rounded once.
TimesMillion(x) ==
    IF IsZero(x) THEN x
    ELSE Round(x.sign, TimesBits(TimesBits(x.m, 1000, 0), 1000, 0), x.e, FALSE)

TimesBillion(x) ==
    IF IsZero(x) THEN x
    ELSE Round(x.sign, TimesBits(TimesBits(TimesBits(x.m, 1000, 0), 1000, 0), 1000, 0),
               x.e, FALSE)

\* int(x): the integer part of x, toward zero (|x| < 2^31).
ToInt(x) ==
    IF IsZero(x) \/ x.e <= 0 - SignificandBits THEN 0
    ELSE IF x.e <= 0 THEN x.sign * Value(SubSeq(x.m, 1, SignificandBits + x.e))
    ELSE x.sign * Value(x.m \o Zeros(x.e))

\* The magnitude of x's integer part (|x| < 2^31).
Whole(x) == IF x.sign = 1 THEN ToInt(x) ELSE 0 - ToInt(x)

\* |x| >= 2^31.
Huge(x) == ~IsZero(x) /\ SignificandBits + x.e > 31

\* |x| is not an integer.
HasFraction(x) ==
    /\ ~IsZero(x)
    /\ x.e < 0
    /\ \E i \in 1..SignificandBits : i > SignificandBits + x.e /\ x.m[i] = 1

\* x > k for an integer k.
Greater(x, k) ==
    IF IsZero(x) THEN 0 > k
    ELSE IF x.sign = 1
    THEN k < 0 \/ Huge(x) \/ Whole(x) > k \/ (Whole(x) = k /\ HasFraction(x))
    ELSE k < 0 /\ ~Huge(x) /\ Whole(x) < 0 - k

\* x - y for x >= 0 and y >= 0.
Sub(x, y) ==
    IF IsZero(y) THEN x
    ELSE IF IsZero(x) THEN Float(0 - 1, y.m, y.e)
    ELSE LET e == IF x.e < y.e THEN x.e ELSE y.e
             X == x.m \o Zeros(x.e - e)
             Y == y.m \o Zeros(y.e - e)
         IN IF Less(X, Y) THEN Round(0 - 1, Minus(Y, X), e, FALSE)
            ELSE Round(1, Minus(X, Y), e, FALSE)

\* The next n bits of r / y after those already produced, and what is left.
RECURSIVE DivBlock(_, _, _)
DivBlock(r, y, n) ==
    IF n = 0 THEN [bits |-> <<>>, r |-> r]
    ELSE LET r2 == IF r = <<>> THEN <<>> ELSE r \o <<0>>
             bit == IF Less(r2, y) THEN 0 ELSE 1
             next == DivBlock(IF bit = 1 THEN Minus(r2, y) ELSE r2, y, n - 1)
         IN [bits |-> <<bit>> \o next.bits, r |-> next.r]

RECURSIVE DivBlocks(_, _, _)
DivBlocks(r, y, blocks) ==
    IF blocks = 0 THEN [bits |-> <<>>, r |-> r]
    ELSE LET head == DivBlock(r, y, 8)
             next == DivBlocks(head.r, y, blocks - 1)
         IN [bits |-> head.bits \o next.bits, r |-> next.r]

\* Seven blocks of eight quotient bits after the leading one.
DivBlockCount == 7

\* x / y for y other than zero.
Div(x, y) ==
    IF IsZero(x) THEN x
    ELSE LET first == IF Less(x.m, y.m) THEN 0 ELSE 1
             q == DivBlocks(IF first = 1 THEN Minus(x.m, y.m) ELSE x.m, y.m, DivBlockCount)
         IN Round(x.sign * y.sign, <<first>> \o q.bits,
                  x.e - y.e - 8 * DivBlockCount, q.r # <<>>)

\* ---------------------------------------------------------- scraped values
\* A raw count of a scraper item: a Python int, a str (its characters), or a
\* value that is neither (a missing field read with its default is the int 0).
RawInt(n) == [kind |-> "int", n |-> n]
RawStr(chars) == [kind |-> "str", n |-> 0, chars |-> chars]
RawOther == [kind |-> "other", n |-> 0]

\* A word of a title: its case-folded text and its number of characters.
Word(text, len) == [text |-> text, len |-> len]

\* A publish string: whether it is non-empty, and the weekday names it contains.
Published(nonempty, days) == [nonempty |-> nonempty, days |-> days]

ItemA ==
    [id |-> "a1", title |-> <<Word("amazing", 7), Word("gadget", 6)>>,
     views |-> RawInt(100), likes |-> RawInt(10), comments |-> RawInt(2),
     date |-> Published(TRUE, {"Monday"}), channelName |-> "Alpha"]

ItemB ==
    [id |-> "b1", title |-> <<Word("gadget", 6), Word("test", 4)>>,
     views |-> RawInt(300), likes |-> RawInt(0), comments |-> RawInt(0),
     date |-> Published(TRUE, {}), channelName |-> "Alpha"]

\* A titled video with no id and no view count.
ItemZ ==
    [id |-> "", title |-> <<Word("teaser", 6)>>,
     views |-> RawOther, likes |-> RawOther, comments |-> RawOther,
     date |-> Published(FALSE, {}), channelName |-> "Zeta"]

\* The non-empty item lists a channel's dataset may hold.
ScrapedItemLists == {<<ItemA>>, <<ItemA, ItemB>>, <<ItemZ>>}

\* The item lists a competitor's dataset may hold.
CompetitorItemLists == {<<ItemA>>}

\* ------------------------------------------------------- youtube_fetcher.py
DigitChars == <<"0", "1", "2", "3", "4", "5", "6", "7", "8", "9">>
IsDigit(c) == \E k \in 1..10 : DigitChars[k] = c
DigitOf(c) == (CHOOSE k \in 1..10 : DigitChars[k] = c) - 1

\* The letters of the strings considered, and str.upper().
LowerCase == <<"a", "b", "e", "g", "k", "m", "r", "x">>
UpperCase == <<"A", "B", "E", "G", "K", "M", "R", "X">>
UpperChar(c) ==
    IF \E k \in 1..Len(LowerCase) : LowerCase[k] = c
    THEN UpperCase[CHOOSE k \in 1..Len(LowerCase) : LowerCase[k] = c]
    ELSE c
upper(chars) == [k \in 1..Len(chars) |-> UpperChar(chars[k])]

\* chars.replace(c, '').
Without(chars, c) == SelectSeq(chars, LAMBDA x : x # c)

\* chars.strip().
strip(chars) ==
    LET inked == {k \in 1..Len(chars) : chars[k] # " "}
    IN IF inked = {} THEN <<>>
       ELSE SubSeq(chars, CHOOSE k \in inked : \A j \in inked : k <= j,
                   CHOOSE k \in inked : \A j \in inked : j <= k)

\* The number a sequence of digits writes.
RECURSIVE DigitsValue(_)
DigitsValue(ds) ==
    IF ds = <<>> THEN 0 ELSE DigitsValue(SubSeq(ds, 1, Len(ds) - 1)) * 10 + DigitOf(ds[Len(ds)])

\* float(chars) for characters among the digits, the point, the space and
\* letters that spell no float: a ValueError, or the double nearest to the
\* decimal numeral p / q written between spaces.
float(chars) ==
    LET t == strip(chars)
        points == {k \in 1..Len(t) : t[k] = "."}
        digits == SelectSeq(t, IsDigit)
        after == IF points = {} THEN 0 ELSE Len(t) - (CHOOSE k \in points : TRUE)
    IN IF /\ digits # <<>>
          /\ Cardinality(points) <= 1
          /\ \A k \in 1..Len(t) : IsDigit(t[k]) \/ t[k] = "."
       THEN [exc |-> "none", value |-> FromRatio(DigitsValue(digits), 10^after)]
       ELSE [exc |-> "ValueError", value |-> FloatZero]

\* The suffix loop finds K, then M, then B; a suffix whose float() raises is
\* passed over.
_parse_number(value) ==
    IF value.kind = "int" THEN value.n
    ELSE IF value.kind # "str" THEN 0
    ELSE LET v == strip(Without(value.chars, ","))
             withK == float(Without(upper(v), "K"))
             withM == float(Without(upper(v), "M"))
             withB == float(Without(upper(v), "B"))
             plain == float(v)
         IN IF "K" \in Range(upper(v)) /\ withK.exc = "none"
            THEN ToInt(TimesInt(withK.value, 1000))
            ELSE IF "M" \in Range(upper(v)) /\ withM.exc = "none"
            THEN ToInt(TimesMillion(withM.value))
            ELSE IF "B" \in Range(upper(v)) /\ withB.exc = "none"
            THEN ToInt(TimesBillion(withB.value))
            ELSE IF plain.exc = "none" THEN ToInt(plain.value)
            ELSE 0

_normalize_video(video) ==
    [id |-> video.id,
     title |-> video.title,
     views |-> _parse_number(video.views),
     likes |-> _parse_number(video.likes),
     comments |-> _parse_number(video.comments),
     published |-> video.date]

_normalize_videos(videos) == [k \in 1..Len(videos) |-> _normalize_video(videos[k])]

IdOf(v) == v.id
HasId(v) == v.id # ""

\* The value fetch_channel_data returns for a non-empty dataset.
ChannelSnapshot(channel_url, videos) ==
    [present |-> TRUE,
     channel_name |-> videos[1].channelName,
     channel_url |-> channel_url,
     videos |-> _normalize_videos(videos),
     video_ids |-> LET withId == SelectSeq(videos, HasId)
                   IN [k \in 1..Len(withId) |-> IdOf(withId[k])]]

\* None.
NoSnapshot ==
    [present |-> FALSE, channel_name |-> "", channel_url |-> 0,
     videos |-> <<>>, video_ids |-> <<>>]

\* A transcript dataset: each item has a transcript or has none.
TranscriptItemLists == {<<>>, <<[videoId |-> "a1", transcript |-> TRUE]>>,
                        <<[videoId |-> "a1", transcript |-> FALSE]>>}

HasTranscript(item) == item.transcript

\* ------------------------------------------------- intelligence_analyzer.py
Days == <<"Monday", "Tuesday", "Wednesday", "Thursday", "Friday", "Saturday", "Sunday">>

_extract_day_of_week(date_str) ==
    LET hits == {k \in 1..Len(Days) : Days[k] \in date_str.days}
    IN IF hits = {} THEN "Tuesday"
       ELSE Days[CHOOSE k \in hits : \A j \in hits : k <= j]

\* Statistics.  consistency_score is kept in tenths (500 is 50.0).  The two
\* display-only fields avg_engagement_rate and peak_performance_range, which no
\* branch reads, are left out.
Stats(avg_views, avg_likes, avg_comments, best_day, consistency, trend) ==
    [avg_views |-> avg_views, avg_likes |-> avg_likes, avg_comments |-> avg_comments,
     best_posting_day |-> best_day, best_posting_time |-> "10:00 AM EST",
     consistency_score |-> consistency, growth_trend |-> trend]

_empty_stats == Stats(0, 0, 0, "Tuesday", 0, "Insufficient Data")

NonZero(n) == n # 0
IsPublished(v) == v.published.nonempty

\* sum(xs) / len(xs) if xs else 0, then int(): xs holds no negative number.
MeanInt(xs) == IF xs = <<>> THEN 0 ELSE SumSeq(xs) \div Len(xs)

Count(s, x) == Cardinality({k \in 1..Len(s) : s[k] = x})

\* Counter(s).most_common(1)[0][0]: the first-seen among the most frequent.
MostCommon(s) ==
    s[CHOOSE k \in 1..Len(s) :
        /\ \A j \in 1..Len(s) : Count(s, s[j]) <= Count(s, s[k])
        /\ \A j \in 1..(k - 1) : Count(s, s[j]) < Count(s, s[k])]

\* (2k - 1)^2 * S^2 <= 4000000 * D, on bit sequences: the products pass 2^31.
HalfStepReached(k, S, D) ==
    k = 0 \/ ~Less(TimesBits(TimesBits(Bits(D), 2000, 0), 2000, 0),
                   TimesBits(TimesBits(TimesBits(Bits(2 * k - 1), 2 * k - 1, 0), S, 0), S, 0))

\* The largest k in lo..hi with HalfStepReached, which holds at lo and is
\* monotone in k.
RECURSIVE LastHalfStep(_, _, _, _)
LastHalfStep(lo, hi, S, D) ==
    IF lo = hi THEN lo
    ELSE LET mid == (lo + hi + 1) \div 2
         IN IF HalfStepReached(mid, S, D) THEN LastHalfStep(mid, hi, S, D)
            ELSE LastHalfStep(lo, mid - 1, S, D)

\* round(100 - min(std/avg*100, 100), 1) in tenths, for views with avg > 0:
\* std/avg = sqrt(n*Q - S*S)/S with S the sum and Q the sum of squares, and
\* the tenth is the nearest one to the exact value (S < 2^15, n*Q < 2^31).
ConsistencyTenths(views) ==
    LET n == Len(views)
        S == SumSeq(views)
        Q == SumSeq([k \in 1..n |-> views[k] * views[k]])
    IN 1000 - LastHalfStep(0, 1000, S, n * Q - S * S)

\* The growth percentage as the floats compute it, then the thresholds.
GrowthTrend(views) ==
    LET n == Len(views)
        h == n \div 2
        first_half == FromRatio(SumSeq(Take(views, h)), h)
        second_half == FromRatio(SumSeq(Drop(views, h)), n - h)
        growth == IF Greater(first_half, 0)
                  THEN TimesInt(Div(Sub(second_half, first_half), first_half), 100)
                  ELSE FloatZero
    IN IF Greater(growth, 20) THEN "Strong Growth"
       ELSE IF Greater(growth, 0) THEN "Steady Growth"
       ELSE IF Greater(growth, 0 - 20) THEN "Stable"
       ELSE "Declining"

\* The same with the percentage computed exactly.
GrowthTrendExact(views) ==
    LET n == Len(views)
        h == n \div 2
        S1 == SumSeq(Take(views, h))
        S2 == SumSeq(Drop(views, h))
    IN IF S1 > 0 /\ 100 * S2 * h > 120 * S1 * (n - h) THEN "Strong Growth"
       ELSE IF S1 > 0 /\ S2 * h > S1 * (n - h) THEN "Steady Growth"
       ELSE IF S1 <= 0 \/ 100 * S2 * h > 80 * S1 * (n - h) THEN "Stable"
       ELSE "Declining"

_compute_statistics(channel_data) ==
    LET videos == channel_data.videos
        views == SelectSeq([k \in 1..Len(videos) |-> videos[k].views], NonZero)
        likes == SelectSeq([k \in 1..Len(videos) |-> videos[k].likes], NonZero)
        comments == SelectSeq([k \in 1..Len(videos) |-> videos[k].comments], NonZero)
        published == SelectSeq(videos, IsPublished)
        publishing_days ==
            [k \in 1..Len(published) |-> _extract_day_of_week(published[k].published)]
        best_day == IF publishing_days # <<>> THEN MostCommon(publishing_days) ELSE "Tuesday"
        consistency ==
            IF Len(views) > ConsistencyMinViews
            THEN (IF SumSeq(views) > 0 THEN ConsistencyTenths(views) ELSE 0)
            ELSE ConsistencyDefault * 10
        trend == IF Len(views) >= GrowthMinViews THEN GrowthTrend(views)
                 ELSE "Insufficient Data"
    IN IF videos = <<>> THEN _empty_stats
       ELSE Stats(MeanInt(views), MeanInt(likes), MeanInt(comments),
                  best_day, consistency, trend)

\* ----- the generative-text gateway: responses and parsed values
\* An item of a parsed list: a JSON object (isdict) that has the key its role
\* reads ('topic', 'gap', 'keyword') or lacks it, or a value that is no object.
Item(isdict, haskey, name, avgViews, videoCount) ==
    [isdict |-> isdict, haskey |-> haskey, name |-> name,
     avgViews |-> avgViews, videoCount |-> videoCount]

Full(name, avgViews) == Item(TRUE, TRUE, name, avgViews, 0)
NoKey == Item(TRUE, FALSE, "", 0, 0)
Scalar == Item(FALSE, FALSE, "", 0, 0)
Str(text) == Item(FALSE, FALSE, text, 0, 0)

\* A parsed JSON value: no object at all ("notdict"), an object without the
\* role's key ("nokey"), or an object whose role key holds the list items.
Parsed(shape, items) == [shape |-> shape, items |-> items]

\* What one call of the gateway does: the service raises, or returns text that
\* holds no '{...}' span and is no JSON ("nobrace"), text that is no JSON but
\* holds a '{...}' span that is no JSON either ("badbrace"), or text that
\* parses to a value ("json").
Response(k, shape, items) == [k |-> k, shape |-> shape, items |-> items]
Raises == Response("raise", "nokey", <<>>)
NoBrace == Response("nobrace", "nokey", <<>>)
BadBrace == Response("badbrace", "nokey", <<>>)
Json(shape, items) == Response("json", shape, items)
Fenced(shape, items) == Response("fenced", shape, items)
Embedded(shape, items) == Response("embedded", shape, items)

TopicResponses ==
    {Raises, NoBrace, BadBrace, Json("notdict", <<>>), Json("nokey", <<>>),
     Json("list", <<>>), Json("list", <<Full("low", 1), Full("high", 2)>>),
     Json("list", <<NoKey>>), Json("list", <<Full("high", 2), NoKey>>),
     Json("list", <<Scalar>>)}

GapResponses ==
    {Raises, NoBrace, BadBrace, Json("notdict", <<>>),
     Json("list", <<Full("gap", 0)>>), Json("list", <<NoKey>>),
     Json("list", <<Full("gap", 0), Scalar>>)}

KeywordResponses ==
    {Raises, NoBrace, Json("list", <<Full("kw", 0)>>), Json("list", <<NoKey>>)}

RecommendationResponses ==
    {Raises, NoBrace, BadBrace, Json("notdict", <<>>), Json("list", <<Str("rec")>>)}

\* The result of a call that may raise: the exception (or "none") and the value.
Ok(value) == [exc |-> "none", value |-> value]
Exc(name) == [exc |-> name, value |-> <<>>]

\* The call has not returned yet.
NotCalled == [exc |-> "pending", value |-> <<>>]

\* message.content[0].text, or the service's error.
_call_claude(resp) == IF resp.k = "raise" THEN Exc("ServiceError") ELSE Ok(resp)

\* The fences stripped, json.loads(text); on failure json.loads of the '{...}'
\* span if there is one, else {}.  A JSON value in a code fence ("fenced")
\* parses at once, one with prose around it ("embedded") parses as the span.
_parse_json(text) ==
    CASE text.k \in {"json", "fenced", "embedded"} -> Ok(Parsed(text.shape, text.items))
      [] text.k = "badbrace" -> Exc("JSONDecodeError")
      [] OTHER -> Ok(Parsed("nokey", <<>>))

\* data.get(key, [])
GetList(data) ==
    CASE data.shape = "notdict" -> Exc("AttributeError")
      [] data.shape = "nokey" -> Ok(<<>>)
      [] OTHER -> Ok(data.items)

\* _parse_json(_call_claude(...)).get(key, [])
CallAndGet(resp) ==
    LET response == _call_claude(resp)
        data == _parse_json(response.value)
    IN IF response.exc # "none" THEN response
       ELSE IF data.exc # "none" THEN data
       ELSE GetList(data.value)

\* sorted(s, key=lambda x: x.key, reverse=True): stable, descending.
RECURSIVE SortedDesc(_)
SortedDesc(s) ==
    IF s = <<>> THEN <<>>
    ELSE LET init == SortedDesc(SubSeq(s, 1, Len(s) - 1))
             x == s[Len(s)]
             pos == Cardinality({k \in 1..Len(init) : init[k].key >= x.key})
         IN SubSeq(init, 1, pos) \o <<x>> \o SubSeq(init, pos + 1, Len(init))

RECURSIVE Flatten(_)
Flatten(ss) == IF ss = <<>> THEN <<>> ELSE Head(ss) \o Flatten(Tail(ss))

LongWord(w) == w.len > FallbackWordLen

\* The outcome of one analysis step: the exception that leaves it ("none" when
\* it returns), whether it called the gateway, and the value it returns.
Step(exc, called, value) == [exc |-> exc, called |-> called, value |-> value]

\* A topic the fallback builds: it has the two fields of its own.
FallbackTopic(word, avgViews, count) ==
    Item(TRUE, TRUE, word, avgViews, count) @@ [opportunity |-> "medium"]

\* The fallback with the first five words met, whatever their counts.
FallbackTopicsFirstMet(videos) ==
    LET words == SelectSeq(Flatten([k \in 1..Len(videos) |-> videos[k].title]), LongWord)
        firsts == SelectSeq([k \in 1..Len(words) |-> [k |-> k, w |-> words[k]]],
                            LAMBDA e : \A j \in 1..(e.k - 1) : words[j] # e.w)
        common == Take(firsts, FallbackTopicCount)
        total == SumSeq([k \in 1..Len(videos) |-> videos[k].views])
    IN [k \in 1..Len(common) |->
           FallbackTopic(common[k].w.text, total \div Len(videos),
                         Count(words, common[k].w))]

_fallback_topics(videos) ==
    LET words == SelectSeq(Flatten([k \in 1..Len(videos) |-> videos[k].title]), LongWord)
        firsts == SelectSeq([k \in 1..Len(words) |-> [k |-> k, w |-> words[k]]],
                            LAMBDA e : \A j \in 1..(e.k - 1) : words[j] # e.w)
        counted == [k \in 1..Len(firsts) |->
                       [key |-> Count(words, firsts[k].w), w |-> firsts[k].w]]
        common == Take(SortedDesc(counted), FallbackTopicCount)
        total == SumSeq([k \in 1..Len(videos) |-> videos[k].views])
    IN [k \in 1..Len(common) |->
           FallbackTopic(common[k].w.text, total \div Len(videos), common[k].key)]

HasTitle(v) == v.title # <<>>
IsDict(item) == item.isdict

_extract_topics(channel_data, resp) ==
    LET videos == Take(channel_data.videos, TopicVideoCap)
        video_titles == SelectSeq(videos, HasTitle)
        video_performance == {v.title : v \in {u \in Range(videos) : HasTitle(u) /\ u.views # 0}}
        got == CallAndGet(resp)
    IN IF \E k \in 1..Min(PromptTitleCap, Len(video_titles)) :
              video_titles[k].title \notin video_performance
       THEN Step("KeyError", FALSE, <<>>)
       ELSE IF got.exc # "none" \/ \E k \in 1..Len(got.value) : ~IsDict(got.value[k])
       THEN Step("none", TRUE, _fallback_topics(videos))
       ELSE LET keyed == [k \in 1..Len(got.value) |->
                             [key |-> got.value[k].avgViews, item |-> got.value[k]]]
                sorted == SortedDesc(keyed)
            IN Step("none", TRUE, [k \in 1..Len(sorted) |-> sorted[k].item])

_find_content_gaps(channel_data, competitor_data, channel_topics, resp) ==
    LET got == CallAndGet(resp)
    IN IF \E k \in 1..Min(GapTopicCap, Len(channel_topics)) : ~channel_topics[k].haskey
       THEN Step("KeyError", FALSE, <<>>)
       ELSE IF got.exc # "none" THEN Step("none", TRUE, <<>>)
       ELSE Step("none", TRUE, got.value)

_extract_keyword_opportunities(transcripts, resp) ==
    LET got == CallAndGet(resp)
    IN IF transcripts = <<>> THEN Step("none", FALSE, <<>>)
       ELSE IF got.exc # "none" THEN Step("none", TRUE, <<>>)
       ELSE Step("none", TRUE, got.value)

_fallback_recommendations ==
    <<Str("Focus on your top-performing topic"), Str("Post consistently"),
      Str("Target 20% growth"), Str("Optimize thumbnails"),
      Str("Analyze competitor content")>>

\* context[name][key] inside the prompt: the exception it raises, if any.
Subscript(items) ==
    IF items = <<>> THEN "none"
    ELSE IF ~items[1].isdict THEN "TypeError"
    ELSE IF ~items[1].haskey THEN "KeyError"
    ELSE "none"

_generate_recommendations(channel_data, stats, topics, gaps, keywords, resp) ==
    LET got == CallAndGet(resp)
    IN IF Subscript(topics) # "none" THEN Step(Subscript(topics), FALSE, <<>>)
       ELSE IF Subscript(gaps) # "none" THEN Step(Subscript(gaps), FALSE, <<>>)
       ELSE IF Subscript(keywords) # "none" THEN Step(Subscript(keywords), FALSE, <<>>)
       ELSE IF got.exc # "none" THEN Step("none", TRUE, _fallback_recommendations)
       ELSE Step("none", TRUE, Take(got.value, RecommendationsCap))

\* The report takes the sequences whole.
ReportUncapped(stats, topics, gaps, keywords, recommendations) ==
    [present |-> TRUE,
     avg_views |-> stats.avg_views,
     best_posting_day |-> stats.best_posting_day,
     best_posting_time |-> stats.best_posting_time,
     top_performing_topics |-> topics,
     content_gaps |-> gaps,
     keyword_opportunities |-> keywords,
     engagement_insights |-> [consistency_score |-> stats.consistency_score,
                              growth_trend |-> stats.growth_trend],
     actionable_recommendations |-> recommendations]

\* The report analyze_channel returns.
Report(stats, topics, gaps, keywords, recommendations) ==
    [present |-> TRUE,
     avg_views |-> stats.avg_views,
     best_posting_day |-> stats.best_posting_day,
     best_posting_time |-> stats.best_posting_time,
     top_performing_topics |-> Take(topics, TopicsCap),
     content_gaps |-> Take(gaps, GapsCap),
     keyword_opportunities |-> Take(keywords, KeywordsCap),
     engagement_insights |-> [consistency_score |-> stats.consistency_score,
                              growth_trend |-> stats.growth_trend],
     actionable_recommendations |-> recommendations]

NoReport ==
    [present |-> FALSE, avg_views |-> 0, best_posting_day |-> "", best_posting_time |-> "",
     top_performing_topics |-> <<>>, content_gaps |-> <<>>, keyword_opportunities |-> <<>>,
     engagement_insights |-> [consistency_score |-> 0, growth_trend |-> ""],
     actionable_recommendations |-> <<>>]

\* The gaps step runs whether or not there is competitor data.
GapsAlways(competitors) == TRUE

\* if competitor_data: (analyze_channel)
GapsWanted(competitors) == competitors # <<>>

\* The keywords step runs whether or not there are transcripts.
KeywordsAlways(trs) == TRUE

\* if transcripts: (analyze_channel)
KeywordsWanted(trs) == trs # <<>>

\* analyze_channel 24-80 as one function of its arguments and of what the
\* gateway answers in each role: the report, or the exception that leaves it.
analyze_channel(channel_data, transcripts, competitor_data, answers) ==
    LET st == _compute_statistics(channel_data)
        tp == _extract_topics(channel_data, answers.topics)
        gp == IF GapsWanted(competitor_data)
              THEN _find_content_gaps(channel_data, competitor_data, tp.value, answers.gaps)
              ELSE Step("none", FALSE, <<>>)
        kw == IF KeywordsWanted(transcripts)
              THEN _extract_keyword_opportunities(transcripts, answers.keywords)
              ELSE Step("none", FALSE, <<>>)
        rc == _generate_recommendations(channel_data, st, tp.value, gp.value, kw.value,
                                        answers.recommendations)
    IN IF tp.exc # "none" THEN Exc(tp.exc)
       ELSE IF gp.exc # "none" THEN Exc(gp.exc)
       ELSE IF rc.exc # "none" THEN Exc(rc.exc)
       ELSE Ok(Report(st, tp.value, gp.value, kw.value, rc.value))

\* ------------------------------------------------------ report_generator.py
\* generate_pdf subscripts topic['topic'] and gap['gap'] of the first five
\* topics and gaps and calls kw.get of the first ten keywords.
generate_pdf(intelligence_report, channel_data) ==
    LET topics == Take(intelligence_report.top_performing_topics, PdfTopicCap)
        gaps == Take(intelligence_report.content_gaps, PdfGapCap)
        kws == Take(intelligence_report.keyword_opportunities, PdfKeywordCap)
    IN IF \E k \in 1..Len(topics) : ~topics[k].isdict THEN Exc("TypeError")
       ELSE IF \E k \in 1..Len(topics) : ~topics[k].haskey THEN Exc("KeyError")
       ELSE IF \E k \in 1..Len(gaps) : ~gaps[k].isdict THEN Exc("TypeError")
       ELSE IF \E k \in 1..Len(gaps) : ~gaps[k].haskey THEN Exc("KeyError")
       ELSE IF \E k \in 1..Len(kws) : ~kws[k].isdict THEN Exc("AttributeError")
       ELSE Ok(<<"pdf">>)

\* generate_csv hands a BytesIO to csv.writer: the first writerow writes a str
\* to it and raises TypeError, whatever the report holds.
generate_csv(intelligence_report) == Exc("TypeError")

\* ------------------------------------------------------------------ main.py
VARIABLES
    \* the actor input, after parsing (main.py 19-31)
    channel_urls, competitor_urls, include_transcripts, api_key,
    \* where the task is, the channel loop's index and the competitor loop's
    pc, idx, comp_idx,
    \* main's locals
    channel_data, transcripts, competitor_data, intelligence_report, err,
    \* analyze_channel's locals
    stats, topics, gaps, keywords,
    \* the result sink (Actor.push_data) and the artifact store (Actor.set_value)
    dataset, kv_store,
    \* history: the last external call and the channel it was made for, the
    \* steps of the current iteration, its gateway calls with their arguments,
    \* the collaborators that failed in it, the locals assigned in it
    last_call, steps, gateway_calls, faults, assigned,
    \* history: the channel during which the run was cancelled (0: it was not)
    \* and the sink as it was then
    cancelled_at, dataset_at_cancel,
    \* one function called on its own: its name, its arguments and what it
    \* returned or raised
    fn, arg, ret

inputs == <<channel_urls, competitor_urls, include_transcripts, api_key>>
locals == <<channel_data, transcripts, competitor_data, intelligence_report>>
frame == <<stats, topics, gaps, keywords>>
outputs == <<dataset, kv_store>>
cancellation == <<cancelled_at, dataset_at_cancel>>
invocation == <<fn, arg, ret>>
mainvars == <<inputs, pc, idx, comp_idx, locals, err, frame, outputs,
              last_call, steps, gateway_calls, faults, assigned, cancellation>>
vars == <<mainvars, invocation>>

AllUrls == <<"u1", "u2", "u3", "u4">>
AllCompetitorUrls == <<"c1", "c2", "c3">>
UrlIndex(url) == CHOOSE k \in 1..Len(AllUrls) : AllUrls[k] = url

\* The awaits that reach the event loop: a cancellation is delivered there.
SuspensionPoints ==
    {"fetch_call", "fetch_list", "transcript_call", "transcript_list",
     "competitor_call", "competitor_list", "store_pdf", "handler"}

\* The exception hierarchy before Python 3.8: CancelledError is an Exception.
IsExceptionLegacy(exc) == TRUE

\* Whether `except Exception` catches exc: asyncio.CancelledError derives from
\* BaseException, every other exception here from Exception.
IsException(exc) == exc # "CancelledError"

\* The loop walks the URLs from the last to the first.
ChannelUrlReversed(i) == channel_urls[Len(channel_urls) + 1 - i]

\* The channel_url of the loop's i-th iteration: enumerate(channel_urls, 1).
ChannelUrlAt(i) == channel_urls[i]

Call(kind) == [ch |-> UrlIndex(ChannelUrlAt(idx)), kind |-> kind]
NoCall == [ch |-> 0, kind |-> "none"]

\* One call of the gateway: its role, the arguments the step was given and
\* the value the step returned.
GatewayCall(role, st, tp, gp, kw, result) ==
    [role |-> role, stats |-> st, topics |-> tp, gaps |-> gp, keywords |-> kw,
     result |-> result]

\* The constructor does not look at the key.
_init_never_raises(key) == FALSE

\* IntelligenceAnalyzer.__init__: no key from the input or the environment.
_init_raises(key) == ~key

\* main.py 127-162, the fields the properties below read.
SuccessRecord(channel_url, report, trs) ==
    [channelUrl |-> channel_url,
     status |-> "success",
     topTopic |-> IF report.top_performing_topics # <<>>
                  THEN report.top_performing_topics[1].name ELSE "None",
     avgViews |-> report.avg_views,
     contentGaps |-> report.content_gaps,
     contentGapsFound |-> Len(report.content_gaps),
     transcriptsAnalyzed |-> Len(trs)]

\* The handler's record says 'success'.
FailedRecordAsSuccess(channel_url, error) ==
    [channelUrl |-> channel_url, status |-> "success", error |-> error]

FailedRecord(channel_url, error) ==
    [channelUrl |-> channel_url, status |-> "failed", error |-> error]

Init ==
    /\ channel_urls \in {Take(AllUrls, n) : n \in 0..MaxChannels}
    /\ competitor_urls \in {Take(AllCompetitorUrls, n) : n \in 0..MaxCompetitors}
    /\ include_transcripts \in BOOLEAN
    /\ api_key \in BOOLEAN
    /\ pc = "start"
    /\ idx = 0
    /\ comp_idx = 0
    /\ channel_data = NoSnapshot
    /\ transcripts = <<>>
    /\ competitor_data = <<>>
    /\ intelligence_report = NoReport
    /\ err = "none"
    /\ stats = _empty_stats
    /\ topics = <<>>
    /\ gaps = <<>>
    /\ keywords = <<>>
    /\ dataset = <<>>
    /\ kv_store = <<>>
    /\ last_call = NoCall
    /\ steps = <<>>
    /\ gateway_calls = <<>>
    /\ faults = {}
    /\ assigned = {}
    /\ cancelled_at = 0
    /\ dataset_at_cancel = <<>>
    /\ fn = "main"
    /\ arg = <<>>
    /\ ret = NotCalled

\* The head of the channel loop for the i-th URL, or the loop's end.  Every
\* local of main is assigned in an iteration before it is read in it
\* (ReadsAreAssigned below), so the values an iteration leaves behind are
\* dropped here.
EnterIteration(i) ==
    /\ idx' = i
    /\ pc' = IF i <= Len(channel_urls) THEN "fetch_call" ELSE "done"
    /\ comp_idx' = 0
    /\ channel_data' = NoSnapshot
    /\ transcripts' = <<>>
    /\ competitor_data' = <<>>
    /\ intelligence_report' = NoReport
    /\ err' = "none"
    /\ steps' = <<>>
    /\ gateway_calls' = <<>>
    /\ faults' = {}
    /\ assigned' = {}

\* The loop body has no try: every exception leaves main.
RaiseToMainUncaught(exc) == pc' = "cancelled" /\ err' = err

\* An exception reaches the try of main's loop body: `except Exception` takes
\* it to the handler, anything else leaves main and ends the run.
RaiseToMain(exc) ==
    IF IsException(exc)
    THEN pc' = "handler" /\ err' = exc
    ELSE pc' = "cancelled" /\ err' = err

\* main.py 33-48: validation, the components, the first iteration.
Validate ==
    /\ pc = "start"
    /\ IF channel_urls = <<>>
       THEN /\ pc' = "actor_failed"
            /\ UNCHANGED <<idx, comp_idx, locals, err, steps, gateway_calls, faults, assigned>>
       ELSE IF _init_raises(api_key)
       THEN /\ pc' = "config_error"
            /\ UNCHANGED <<idx, comp_idx, locals, err, steps, gateway_calls, faults, assigned>>
       ELSE EnterIteration(1)
    /\ UNCHANGED <<invocation, inputs, frame, outputs, last_call, cancellation>>

\* fetch_channel_data, Actor.call: the call raises or the run has no dataset
\* (both re-raised at youtube_fetcher.py 58-60), or the run has a dataset.
FetchCall ==
    /\ pc = "fetch_call"
    /\ \E outcome \in {"ActorCallError", "NoDatasetError", "ok"} :
          IF outcome = "ok"
          THEN pc' = "fetch_list" /\ err' = err /\ faults' = faults
          ELSE RaiseToMain(outcome) /\ faults' = faults \cup {"fetch"}
    /\ last_call' = Call("fetch")
    /\ steps' = Append(steps, "fetch_call")
    /\ UNCHANGED <<invocation, inputs, idx, comp_idx, locals, frame, outputs, gateway_calls,
                   assigned, cancellation>>

\* fetch_channel_data, list_items raises.
FetchListRaises ==
    /\ pc = "fetch_list"
    /\ RaiseToMain("ListItemsError")
    /\ faults' = faults \cup {"fetch"}
    /\ last_call' = Call("fetch")
    /\ steps' = Append(steps, "fetch_list")
    /\ UNCHANGED <<invocation, inputs, idx, comp_idx, locals, frame, outputs, gateway_calls,
                   assigned, cancellation>>

\* fetch_channel_data returns None (no items); main.py 61-63 continues.
FetchListEmpty ==
    /\ pc = "fetch_list"
    /\ EnterIteration(idx + 1)
    /\ last_call' = Call("fetch")
    /\ UNCHANGED <<invocation, inputs, frame, outputs, cancellation>>

\* After the transcripts (main.py 78-91): the competitor loop, or the analysis.
AfterTranscripts(trs, nowAssigned) ==
    /\ transcripts' = trs
    /\ competitor_data' = <<>>
    /\ IF competitor_urls # <<>>
       THEN comp_idx' = 1 /\ pc' = "competitor_call"
       ELSE comp_idx' = comp_idx /\ pc' = "topics"
    /\ assigned' = assigned \cup nowAssigned \cup {"transcripts", "competitor_data"}

\* fetch_channel_data returns a snapshot; main.py 61-76.
FetchListItems ==
    /\ pc = "fetch_list"
    /\ \E items \in ScrapedItemLists :
          LET snapshot == ChannelSnapshot(ChannelUrlAt(idx), items)
              video_ids == Take(snapshot.video_ids, TranscriptIdCap)
          IN /\ channel_data' = snapshot
             /\ IF include_transcripts /\ video_ids # <<>>
                THEN /\ pc' = "transcript_call"
                     /\ transcripts' = <<>>
                     /\ assigned' = assigned \cup {"channel_data", "transcripts"}
                     /\ UNCHANGED <<comp_idx, competitor_data>>
                ELSE AfterTranscripts(<<>>, {"channel_data"})
    /\ last_call' = Call("fetch")
    /\ steps' = Append(steps, "fetch_list")
    /\ UNCHANGED <<invocation, inputs, idx, intelligence_report, err, frame, outputs, gateway_calls,
                   faults, cancellation>>

\* An exception inside fetch_transcripts' try: `except Exception` returns [],
\* anything else goes on to main.
RaiseInTranscripts(exc) ==
    IF IsException(exc)
    THEN AfterTranscripts(<<>>, {}) /\ err' = err
    ELSE RaiseToMain(exc) /\ UNCHANGED <<transcripts, competitor_data, comp_idx, assigned>>

\* fetch_transcripts, Actor.call (one batch: at most ten ids).
TranscriptCall ==
    /\ pc = "transcript_call"
    /\ \E outcome \in {"ActorCallError", "no_dataset", "ok"} :
          CASE outcome = "ok" ->
                 /\ pc' = "transcript_list"
                 /\ UNCHANGED <<transcripts, competitor_data, comp_idx, assigned, err, faults>>
            [] outcome = "no_dataset" ->
                 AfterTranscripts(<<>>, {}) /\ UNCHANGED <<err, faults>>
            [] OTHER ->
                 RaiseInTranscripts(outcome) /\ faults' = faults \cup {"transcripts"}
    /\ last_call' = Call("transcripts")
    /\ steps' = Append(steps, "transcript_call")
    /\ UNCHANGED <<invocation, inputs, idx, channel_data, intelligence_report, frame, outputs,
                   gateway_calls, cancellation>>

\* fetch_transcripts, list_items raises.
TranscriptListRaises ==
    /\ pc = "transcript_list"
    /\ RaiseInTranscripts("ListItemsError")
    /\ faults' = faults \cup {"transcripts"}
    /\ last_call' = Call("transcripts")
    /\ steps' = Append(steps, "transcript_list")
    /\ UNCHANGED <<invocation, inputs, idx, channel_data, intelligence_report, frame, outputs,
                   gateway_calls, cancellation>>

\* fetch_transcripts returns the items that have a transcript.
TranscriptListItems ==
    /\ pc = "transcript_list"
    /\ \E items \in TranscriptItemLists :
          AfterTranscripts(SelectSeq(items, HasTranscript), {})
    /\ last_call' = Call("transcripts")
    /\ steps' = Append(steps, "transcript_list")
    /\ UNCHANGED <<invocation, inputs, idx, channel_data, intelligence_report, err, frame, outputs,
                   gateway_calls, faults, cancellation>>

\* The competitor loop's next iteration, or the analysis (main.py 82-95).
AfterCompetitor ==
    IF comp_idx < Len(competitor_urls)
    THEN comp_idx' = comp_idx + 1 /\ pc' = "competitor_call"
    ELSE comp_idx' = comp_idx /\ pc' = "topics"

\* fetch_channel_data for a competitor, Actor.call: main.py 83 has no try of
\* its own, so what fetch_channel_data re-raises reaches the loop body's try.
CompetitorCall ==
    /\ pc = "competitor_call"
    /\ \E outcome \in {"ActorCallError", "NoDatasetError", "ok"} :
          IF outcome = "ok"
          THEN pc' = "competitor_list" /\ err' = err /\ faults' = faults
          ELSE RaiseToMain(outcome) /\ faults' = faults \cup {"competitor"}
    /\ last_call' = Call("competitor")
    /\ steps' = Append(steps, "competitor_call")
    /\ UNCHANGED <<invocation, inputs, idx, comp_idx, locals, frame, outputs, gateway_calls,
                   assigned, cancellation>>

\* fetch_channel_data for a competitor, list_items raises.
CompetitorListRaises ==
    /\ pc = "competitor_list"
    /\ RaiseToMain("ListItemsError")
    /\ faults' = faults \cup {"competitor"}
    /\ last_call' = Call("competitor")
    /\ steps' = Append(steps, "competitor_list")
    /\ UNCHANGED <<invocation, inputs, idx, comp_idx, locals, frame, outputs, gateway_calls,
                   assigned, cancellation>>

\* fetch_channel_data returns None for a competitor: it is left out.
CompetitorListEmpty ==
    /\ pc = "competitor_list"
    /\ AfterCompetitor
    /\ last_call' = Call("competitor")
    /\ steps' = Append(steps, "competitor_list")
    /\ UNCHANGED <<invocation, inputs, idx, locals, err, frame, outputs, gateway_calls, faults,
                   assigned, cancellation>>

\* fetch_channel_data returns a competitor's snapshot: it is appended.
CompetitorListItems ==
    /\ pc = "competitor_list"
    /\ \E items \in CompetitorItemLists :
          competitor_data' =
              Append(competitor_data, ChannelSnapshot(competitor_urls[comp_idx], items))
    /\ AfterCompetitor
    /\ last_call' = Call("competitor")
    /\ steps' = Append(steps, "competitor_list")
    /\ UNCHANGED <<invocation, inputs, idx, channel_data, transcripts, intelligence_report, err, frame,
                   outputs, gateway_calls, faults, assigned, cancellation>>

\* An exception leaves analyze_channel: its frame is gone, main's try has it.
AnalysisRaises(exc) ==
    /\ RaiseToMain(exc)
    /\ stats' = _empty_stats
    /\ topics' = <<>>
    /\ gaps' = <<>>
    /\ keywords' = <<>>

\* The keywords step is placed before the gaps step.
AfterStepKeywordsFirst(step) ==
    CASE step = "topics" ->
           IF KeywordsWanted(transcripts) THEN "keywords"
           ELSE IF GapsWanted(competitor_data) THEN "gaps"
           ELSE "recommendations"
      [] step = "keywords" ->
           IF GapsWanted(competitor_data) THEN "gaps" ELSE "recommendations"
      [] OTHER -> "recommendations"

\* analyze_channel 36-50: the step that follows a step.
AfterStep(step) ==
    CASE step = "topics" ->
           IF GapsWanted(competitor_data) THEN "gaps"
           ELSE IF KeywordsWanted(transcripts) THEN "keywords"
           ELSE "recommendations"
      [] step = "gaps" ->
           IF KeywordsWanted(transcripts) THEN "keywords" ELSE "recommendations"
      [] OTHER -> "recommendations"

Malformed(resp) == resp.k # "json" \/ resp.shape # "list" \/ \E k \in 1..Len(resp.items) :
                       ~resp.items[k].isdict \/ ~resp.items[k].haskey

\* The recommendations are a list of strings: its items are not subscripted.
MalformedList(resp) == resp.k # "json" \/ resp.shape # "list"

\* The gateway's part in the faults of the iteration.
GatewayFault(step, resp) == IF step.called /\ Malformed(resp) THEN {"gateway"} ELSE {}

RecommendationsFault(step, resp) ==
    IF step.called /\ MalformedList(resp) THEN {"gateway"} ELSE {}

\* analyze_channel steps 1 and 2: the statistics, then the topics call.
Topics ==
    /\ pc = "topics"
    /\ \E resp \in TopicResponses :
          LET st == _compute_statistics(channel_data)
              step == _extract_topics(channel_data, resp)
              called == IF step.called
                        THEN <<GatewayCall("topics", st, <<>>, <<>>, <<>>, step.value)>>
                        ELSE <<>>
          IN /\ steps' = Append(steps, "statistics")
                            \o (IF step.called THEN <<"topics">> ELSE <<>>)
             /\ gateway_calls' = gateway_calls \o called
             /\ faults' = faults \cup GatewayFault(step, resp)
             /\ IF step.exc # "none"
                THEN AnalysisRaises(step.exc)
                ELSE /\ stats' = st
                     /\ topics' = step.value
                     /\ gaps' = <<>>
                     /\ keywords' = <<>>
                     /\ pc' = AfterStep("topics")
                     /\ err' = err
    /\ UNCHANGED <<invocation, inputs, idx, comp_idx, locals, outputs, last_call, assigned, cancellation>>

\* analyze_channel step 3: the gaps call.
Gaps ==
    /\ pc = "gaps"
    /\ \E resp \in GapResponses :
          LET channel_topics == topics
              step == _find_content_gaps(channel_data, competitor_data, channel_topics, resp)
              called == IF step.called
                        THEN <<GatewayCall("gaps", stats, channel_topics, <<>>, <<>>,
                                           step.value)>>
                        ELSE <<>>
          IN /\ steps' = steps \o (IF step.called THEN <<"gaps">> ELSE <<>>)
             /\ gateway_calls' = gateway_calls \o called
             /\ faults' = faults \cup GatewayFault(step, resp)
             /\ IF step.exc # "none"
                THEN AnalysisRaises(step.exc)
                ELSE /\ gaps' = step.value
                     /\ pc' = AfterStep("gaps")
                     /\ UNCHANGED <<stats, topics, keywords, err>>
    /\ UNCHANGED <<invocation, inputs, idx, comp_idx, locals, outputs, last_call, assigned, cancellation>>

\* analyze_channel step 4: the keywords call.
Keywords ==
    /\ pc = "keywords"
    /\ \E resp \in KeywordResponses :
          LET step == _extract_keyword_opportunities(transcripts, resp)
              called == IF step.called
                        THEN <<GatewayCall("keywords", stats, <<>>, <<>>, <<>>, step.value)>>
                        ELSE <<>>
          IN /\ steps' = steps \o (IF step.called THEN <<"keywords">> ELSE <<>>)
             /\ gateway_calls' = gateway_calls \o called
             /\ faults' = faults \cup GatewayFault(step, resp)
             /\ keywords' = step.value
             /\ pc' = AfterStep("keywords")
    /\ UNCHANGED <<invocation, inputs, idx, comp_idx, locals, err, stats, topics, gaps, outputs,
                   last_call, assigned, cancellation>>

\* analyze_channel step 5 and its return, then main.py 103-113: the
\* recommendations call, the report, generate_pdf.
Recommendations ==
    /\ pc = "recommendations"
    /\ \E resp \in RecommendationResponses :
          LET step == _generate_recommendations(channel_data, stats, topics, gaps,
                                                keywords, resp)
              called == IF step.called
                        THEN <<GatewayCall("recommendations", stats, topics, gaps, keywords,
                                           step.value)>>
                        ELSE <<>>
              report == Report(stats, topics, gaps, keywords, step.value)
              pdf == generate_pdf(report, channel_data)
          IN /\ gateway_calls' = gateway_calls \o called
             /\ faults' = faults \cup RecommendationsFault(step, resp)
             /\ IF step.exc # "none"
                THEN /\ AnalysisRaises(step.exc)
                     /\ steps' = steps
                     /\ UNCHANGED <<intelligence_report, assigned>>
                ELSE /\ steps' = steps \o <<"recommendations", "generate_pdf">>
                     /\ intelligence_report' = report
                     /\ assigned' = assigned \cup {"intelligence_report"}
                     /\ stats' = _empty_stats
                     /\ topics' = <<>>
                     /\ gaps' = <<>>
                     /\ keywords' = <<>>
                     /\ IF pdf.exc # "none"
                        THEN RaiseToMain(pdf.exc)
                        ELSE pc' = "store_pdf" /\ err' = err
    /\ UNCHANGED <<invocation, inputs, idx, comp_idx, channel_data, transcripts, competitor_data,
                   outputs, last_call, cancellation>>

\* main.py 113-119: Actor.set_value of the PDF, then generate_csv.  The CSV is
\* never stored and no 'success' record is ever built: generate_csv raises.
StorePdf ==
    /\ pc = "store_pdf"
    /\ \E outcome \in {"StoreError", "ok"} :
          IF outcome = "ok"
          THEN /\ kv_store' = Append(kv_store, [channel |-> ChannelUrlAt(idx), kind |-> "pdf"])
               /\ steps' = steps \o <<"store_pdf", "generate_csv">>
               /\ faults' = faults
               /\ IF generate_csv(intelligence_report).exc # "none"
                  THEN RaiseToMain(generate_csv(intelligence_report).exc)
                  ELSE pc' = "store_csv" /\ err' = err
          ELSE /\ kv_store' = kv_store
               /\ steps' = Append(steps, "store_pdf")
               /\ faults' = faults \cup {"store"}
               /\ RaiseToMain(outcome)
    /\ last_call' = Call("store")
    /\ UNCHANGED <<invocation, inputs, idx, comp_idx, locals, frame, dataset, gateway_calls,
                   assigned, cancellation>>

\* main.py 171-178: the failed record is pushed and the loop goes on.
Handler ==
    /\ pc = "handler"
    /\ dataset' = Append(dataset, FailedRecord(ChannelUrlAt(idx), err))
    /\ last_call' = Call("push")
    /\ EnterIteration(idx + 1)
    /\ UNCHANGED <<invocation, inputs, frame, kv_store, cancellation>>

\* The run is cancelled from outside: CancelledError is raised in the task at
\* the await it is suspended in.
Cancel ==
    /\ pc \in SuspensionPoints
    /\ cancelled_at = 0
    /\ cancelled_at' = idx
    /\ dataset_at_cancel' = dataset
    /\ CASE pc \in {"transcript_call", "transcript_list"} ->
              RaiseInTranscripts("CancelledError")
         [] pc = "handler" ->
              pc' = "cancelled" /\ UNCHANGED <<err, transcripts, competitor_data, comp_idx, assigned>>
         [] OTHER ->
              RaiseToMain("CancelledError")
                  /\ UNCHANGED <<transcripts, competitor_data, comp_idx, assigned>>
    /\ UNCHANGED <<invocation, inputs, idx, channel_data, intelligence_report, frame, outputs,
                   last_call, steps, gateway_calls, faults>>

Next ==
    \/ Validate
    \/ FetchCall
    \/ FetchListRaises
    \/ FetchListEmpty
    \/ FetchListItems
    \/ TranscriptCall
    \/ TranscriptListRaises
    \/ TranscriptListItems
    \/ CompetitorCall
    \/ CompetitorListRaises
    \/ CompetitorListEmpty
    \/ CompetitorListItems
    \/ Topics
    \/ Gaps
    \/ Keywords
    \/ Recommendations
    \/ StorePdf
    \/ Handler
    \/ Cancel

Spec == Init /\ [][Next]_vars

\* ------------------------------------------------- functions on their own
\* main is not running: its variables stay as they are here.
MainNotStarted ==
    /\ channel_urls = <<>>
    /\ competitor_urls = <<>>
    /\ include_transcripts = FALSE
    /\ api_key = FALSE
    /\ pc = "not_started"
    /\ idx = 0
    /\ comp_idx = 0
    /\ channel_data = NoSnapshot
    /\ transcripts = <<>>
    /\ competitor_data = <<>>
    /\ intelligence_report = NoReport
    /\ err = "none"
    /\ stats = _empty_stats
    /\ topics = <<>>
    /\ gaps = <<>>
    /\ keywords = <<>>
    /\ dataset = <<>>
    /\ kv_store = <<>>
    /\ last_call = NoCall
    /\ steps = <<>>
    /\ gateway_calls = <<>>
    /\ faults = {}
    /\ assigned = {}
    /\ cancelled_at = 0
    /\ dataset_at_cancel = <<>>

\* A gateway answer whose list has n well-formed items; the k-th item carries
\* k, and the avgViews the topics are sorted by repeat with period three.
LongAnswer(n) == Json("list", [k \in 1..n |-> Item(TRUE, TRUE, "item", k % 3, k)])

\* The recommendations are strings.
LongTextAnswer(n) == Json("list", [k \in 1..n |-> Item(FALSE, FALSE, "rec", 0, k)])

\* analyze_channel's arguments: a channel with competitors and transcripts,
\* and answers of up to MaxListLen items.
AnalyzeArguments ==
    {[channel_data |-> ChannelSnapshot("u1", <<ItemA, ItemB>>),
      transcripts |-> <<[video_id |-> "a1", transcript |-> TRUE]>>,
      competitor_data |-> <<ChannelSnapshot("c1", <<ItemA>>)>>,
      answers |-> [topics |-> LongAnswer(n), gaps |-> LongAnswer(m),
                   keywords |-> LongAnswer(n),
                   recommendations |-> IF r = "raise" THEN Raises
                                       ELSE LongTextAnswer(IF r = "n" THEN n ELSE m)]] :
        n \in 0..MaxListLen, m \in 0..MaxListLen, r \in {"n", "m", "raise"}}

\* A scraped video with a title, which may be empty, and a view count, which
\* may be 0; no likes, no comments.
PlainItem(title, views) ==
    [id |-> "p1", title |-> title, views |-> RawInt(views), likes |-> RawInt(0),
     comments |-> RawInt(0), date |-> Published(FALSE, {}), channelName |-> "Plain"]

PlainItems ==
    {PlainItem(t, n) : t \in {<<>>, <<Word("amazing", 7)>>, <<Word("gadget", 6)>>},
                       n \in {0, 100}}

\* What the gateway does in all four roles: it raises, answers in prose, or
\* answers with JSON.
GatewayOutcome(o) ==
    CASE o = "raise" ->
           [topics |-> Raises, gaps |-> Raises, keywords |-> Raises,
            recommendations |-> Raises]
      [] o = "prose" ->
           [topics |-> NoBrace, gaps |-> NoBrace, keywords |-> NoBrace,
            recommendations |-> NoBrace]
      [] OTHER ->
           [topics |-> LongAnswer(1), gaps |-> LongAnswer(1), keywords |-> LongAnswer(1),
            recommendations |-> LongTextAnswer(1)]

\* analyze_channel's arguments for a channel of one to MaxPlainVideos such
\* videos, without transcripts, with or without a competitor.
PlainChannelArguments ==
    {[channel_data |-> ChannelSnapshot("u1", items),
      transcripts |-> <<>>,
      competitor_data |-> competitors,
      answers |-> GatewayOutcome(o)] :
        items \in SeqsUpTo(PlainItems, MaxPlainVideos) \ {<<>>},
        competitors \in {<<>>, <<ChannelSnapshot("c1", <<ItemA>>)>>},
        o \in {"raise", "prose", "json"}}

Call_analyze_channel ==
    /\ fn = "analyze_channel"
    /\ ret = NotCalled
    /\ ret' = analyze_channel(arg.channel_data, arg.transcripts, arg.competitor_data,
                              arg.answers)
    /\ UNCHANGED <<fn, arg, mainvars>>

\* What a step hands to its caller.
Returned(step) == IF step.exc # "none" THEN Exc(step.exc) ELSE Ok(step.value)

\* _extract_topics' arguments: a scraped channel and what the gateway answers.
ExtractTopicsArguments ==
    {[channel_data |-> ChannelSnapshot("u1", items), resp |-> resp] :
        items \in ScrapedItemLists, resp \in TopicResponses}

\* _parse_json's arguments: the texts a response may hold.
ParseJsonArguments ==
    {NoBrace, BadBrace, Json("notdict", <<>>), Json("nokey", <<>>), Json("list", <<>>),
     Json("list", <<Full("high", 2)>>), Fenced("list", <<Full("high", 2)>>),
     Fenced("nokey", <<>>), Embedded("list", <<Full("high", 2), NoKey>>),
     Embedded("nokey", <<>>)}

Call_parse_json ==
    /\ fn = "_parse_json"
    /\ ret = NotCalled
    /\ ret' = _parse_json(arg)
    /\ UNCHANGED <<fn, arg, mainvars>>

Call_extract_topics ==
    /\ fn = "_extract_topics"
    /\ ret = NotCalled
    /\ ret' = Returned(_extract_topics(arg.channel_data, arg.resp))
    /\ UNCHANGED <<fn, arg, mainvars>>

\* The titles of _fallback_topics' videos: words of four, five and more
\* characters, seven long ones in all, one title empty, one with a word twice.
Titles ==
    {<<Word("amazing", 7), Word("gadget", 6)>>,
     <<Word("amazing", 7), Word("gadget", 6), Word("review", 6)>>,
     <<Word("setup", 5), Word("guide", 5), Word("phone", 5), Word("laptop", 6),
       Word("test", 4)>>,
     <<>>,
     <<Word("phone", 5), Word("phone", 5), Word("tips", 4)>>}

TitledVideo(title, views) ==
    [id |-> "v1", title |-> title, views |-> views, likes |-> 0, comments |-> 0,
     published |-> Published(FALSE, {})]

\* _fallback_topics' arguments: up to MaxTitledVideos videos.
FallbackArguments ==
    {[videos |-> v] :
        v \in SeqsUpTo({TitledVideo(t, n) : t \in Titles, n \in {400, 600}}, MaxTitledVideos)}

Call_fallback_topics ==
    /\ fn = "_fallback_topics"
    /\ ret = NotCalled
    /\ ret' = Ok(_fallback_topics(arg.videos))
    /\ UNCHANGED <<fn, arg, mainvars>>

FunctionInit ==
    /\ MainNotStarted
    /\ ret = NotCalled
    /\ \/ fn = "analyze_channel" /\ arg \in AnalyzeArguments \cup PlainChannelArguments
       \/ fn = "_extract_topics" /\ arg \in ExtractTopicsArguments
       \/ fn = "_parse_json" /\ arg \in ParseJsonArguments
       \/ fn = "_fallback_topics" /\ arg \in FallbackArguments

FunctionNext ==
    \/ Call_analyze_channel
    \/ Call_extract_topics
    \/ Call_parse_json
    \/ Call_fallback_topics

Functions == FunctionInit /\ [][FunctionNext]_vars

\* ------------------------------------------- _compute_statistics on its own
\* A video as _normalize_videos leaves it, with the two fields given.
Video(views, published) ==
    [id |-> "v1", title |-> <<Word("video", 5)>>, views |-> views, likes |-> 0,
     comments |-> 0, published |-> published]

ViewCounts == {0, 1, 2, 100, 120}

\* n view counts: k times a, then b.
RunOfViews(n, k, a, b) == [i \in 1..n |-> IF i <= k THEN a ELSE b]

\* Twelve view counts that rise and fall and rise.
ZigZagViews == <<100, 200, 150, 300, 250, 400, 350, 500, 450, 600, 550, 700>>

\* Up to MaxVideos videos without a publish string.
UndatedVideoLists ==
    LET views == {RunOfViews(n, k, a, b) :
                     n \in 0..MaxVideos, k \in 0..MaxVideos, a \in ViewCounts, b \in ViewCounts}
                 \cup {ZigZagViews}
    IN {[i \in 1..Len(v) |-> Video(v[i], Published(FALSE, {}))] : v \in views}

\* A publish string: none, one without a weekday name, one with a weekday
\* name, one with two.
PublishStrings ==
    {Published(FALSE, {}), Published(TRUE, {}), Published(TRUE, {"Monday"}),
     Published(TRUE, {"Friday"}), Published(TRUE, {"Friday", "Monday"})}

\* Up to MaxDatedVideos videos with their publish strings.
DatedVideoLists ==
    {[i \in 1..Len(p) |-> Video(100, p[i])] : p \in SeqsUpTo(PublishStrings, MaxDatedVideos)}

StatisticsArguments ==
    {[channel_data |-> [videos |-> v]] : v \in UndatedVideoLists \cup DatedVideoLists}

Call_compute_statistics ==
    /\ fn = "_compute_statistics"
    /\ ret = NotCalled
    /\ ret' = Ok(_compute_statistics(arg.channel_data))
    /\ UNCHANGED <<fn, arg, mainvars>>

StatisticsInit ==
    /\ MainNotStarted
    /\ fn = "_compute_statistics"
    /\ arg \in StatisticsArguments
    /\ ret = NotCalled

StatisticsNext == Call_compute_statistics

Statistics == StatisticsInit /\ [][StatisticsNext]_vars

\* ------------------------------------------------ _parse_number on its own
\* The characters the strings are made of.
Alphabet == {"0", "1", "4", ",", ".", "K", "k", "x", " "}

\* Strings with the suffixes M and B and with other digits.
SuffixedStrings ==
    {<<"1", ".", "2", "M">>, <<"5", "0", "K">>, <<"3", ",", "5", "0", "0">>,
     <<"g", "a", "r", "b", "a", "g", "e">>, <<"4", ".", "1", "M">>,
     <<"2", ".", "0", "1", "K">>, <<"1", "B">>, <<"2", "b">>, <<"1", ".", "5", "m">>,
     <<"2", ".", "5", "M", "B">>, <<"1", ",", "2", "3", "4", ",", "5", "6", "7">>}

\* The raw counts: ints, strings of up to MaxChars characters, and others.
RawCounts ==
    {RawInt(n) : n \in {0, 7, 1000}} \cup {RawOther}
        \cup {RawStr(c) : c \in SeqsUpTo(Alphabet, MaxChars) \cup SuffixedStrings}

Call_parse_number ==
    /\ fn = "_parse_number"
    /\ ret.exc = "pending"
    /\ ret' = Ok(_parse_number(arg))
    /\ UNCHANGED <<fn, arg, mainvars>>

NumbersInit ==
    /\ MainNotStarted
    /\ fn = "_parse_number"
    /\ arg \in RawCounts
    /\ ret = NotCalled

NumbersNext == Call_parse_number

Numbers == NumbersInit /\ [][NumbersNext]_vars

\* -------------------------------------------------------------- properties
FetchErrors == {"ActorCallError", "NoDatasetError", "ListItemsError"}

GatewayRoles == {"topics", "gaps", "keywords", "recommendations"}

IsGatewayRole(step) == step \in GatewayRoles

RoleRank(role) ==
    CASE role = "topics" -> 1
      [] role = "gaps" -> 2
      [] role = "keywords" -> 3
      [] OTHER -> 4

\* The value the call of `role` returned in this iteration, [] if it was not made.
ResultOf(role) ==
    LET made == {k \in 1..Len(gateway_calls) : gateway_calls[k].role = role}
    IN IF made = {} THEN <<>> ELSE gateway_calls[CHOOSE k \in made : TRUE].result

\* Every video has a title and a positive view count.
WellFormedSnapshot(snapshot) ==
    /\ snapshot.present
    /\ \A k \in 1..Len(snapshot.videos) :
          HasTitle(snapshot.videos[k]) /\ snapshot.videos[k].views > 0

\* C1: when a run that passed validation has completed, every requested
\* channel URL has exactly one record in the sink, in input order, and its
\* status is 'success' or 'failed'.
C1_OneRecordPerChannel ==
    pc = "done" =>
        /\ Len(dataset) = Len(channel_urls)
        /\ \A k \in 1..Len(dataset) :
              /\ dataset[k].channelUrl = channel_urls[k]
              /\ dataset[k].status \in {"success", "failed"}

\* Every local main reads at its current position was assigned in the current
\* iteration.
ReadsAreAssigned ==
    /\ pc \in {"transcript_call", "transcript_list"} =>
          {"channel_data", "transcripts"} \subseteq assigned
    /\ pc \in {"competitor_call", "competitor_list", "topics", "gaps", "keywords",
               "recommendations"} =>
          {"channel_data", "transcripts", "competitor_data"} \subseteq assigned
    /\ pc = "store_pdf" =>
          {"channel_data", "transcripts", "competitor_data", "intelligence_report"}
              \subseteq assigned

\* An iteration starts from the same state whatever the iterations before it did.
LoopHeadFresh ==
    (pc = "fetch_call" /\ steps = <<>>) =>
        /\ channel_data = NoSnapshot
        /\ transcripts = <<>>
        /\ competitor_data = <<>>
        /\ intelligence_report = NoReport
        /\ err = "none"
        /\ topics = <<>> /\ gaps = <<>> /\ keywords = <<>>
        /\ faults = {} /\ gateway_calls = <<>> /\ assigned = {}

\* The step in which the subject channel's fetch raises goes to the handler
\* with the fetch's error, and nothing was analysed or rendered.
FetchFailureGoesToHandler ==
    ("fetch" \in faults' /\ "fetch" \notin faults) =>
        /\ pc' = "handler"
        /\ err' \in FetchErrors
        /\ gateway_calls' = <<>>
        /\ Range(steps') \subseteq {"fetch_call", "fetch_list"}
        /\ ~intelligence_report'.present
        /\ UNCHANGED <<dataset, kv_store>>

\* The handler's step, unless the run is cancelled in it, pushes the failed
\* record of the current channel after the records already there and goes to
\* the next channel, if there is one.
HandlerPushesAndContinues ==
    (pc = "handler" /\ cancelled_at' = 0) =>
        /\ dataset' = Append(dataset, FailedRecord(channel_urls[idx], err))
        /\ kv_store' = kv_store
        /\ idx' = idx + 1
        /\ pc' = IF idx < Len(channel_urls) THEN "fetch_call" ELSE "done"

\* C2: when fetch_channel_data raises for the subject channel at position i,
\* the failed record {channelUrl, status 'failed', error} is pushed for it, no
\* analysis or rendering step runs for it, and the loop goes on to channel
\* i+1, whose iteration starts from the state it starts from after any other
\* iteration and reads only what it assigns itself.
C2_FetchFailureIsolated ==
    /\ [](LoopHeadFresh /\ ReadsAreAssigned)
    /\ [][FetchFailureGoesToHandler /\ HandlerPushesAndContinues]_vars

\* Channel 1's fetch raised, its failed record was pushed, and channel 2 was
\* processed to its own record.
C2_Witness ==
    /\ pc = "done"
    /\ Len(dataset) = 2
    /\ dataset[1] \in {FailedRecord("u1", e) : e \in FetchErrors}
    /\ dataset[2] = FailedRecord("u2", "TypeError")

\* C3: a failure while fetching a competitor is not fatal: when it is the only
\* collaborator failure of the iteration, the subject channel does not end in
\* the failure handler.
C3_CompetitorFailureNotFatal == faults = {"competitor"} => pc # "handler"

\* C4: for a well-formed snapshot analyze_channel returns a report whatever
\* the four gateway calls do: no exception leaves it.
C4_AnalyzeChannelNeverRaises ==
    (pc = "handler" /\ "statistics" \in Range(steps) /\ "generate_pdf" \notin Range(steps))
        => ~WellFormedSnapshot(channel_data)

\* C5: with no channel URL or no credential the run stops before any channel
\* is processed: no fetch, no gateway call, no artifact, no record.
C5_ConfigurationErrorStopsRun ==
    (channel_urls = <<>> \/ ~api_key) =>
        /\ pc \in {"start", "actor_failed", "config_error"}
        /\ last_call = NoCall
        /\ steps = <<>>
        /\ gateway_calls = <<>>
        /\ dataset = <<>>
        /\ kv_store = <<>>

\* The analyzer's constructor has raised for want of a credential.
C5_Witness == pc = "config_error" /\ channel_urls # <<>> /\ ~api_key

\* C6: in a run with no competitor URL the gaps step is never entered and no
\* gaps call is made, the report has no content gaps, and the success record
\* main builds from the report has contentGaps = [] and contentGapsFound = 0.
C6_NoCompetitorsNoGaps ==
    competitor_urls = <<>> =>
        /\ pc # "gaps"
        /\ "gaps" \notin Range(steps)
        /\ \A k \in 1..Len(gateway_calls) : gateway_calls[k].role # "gaps"
        /\ intelligence_report.present =>
              /\ intelligence_report.content_gaps = <<>>
              /\ SuccessRecord(channel_urls[idx], intelligence_report, transcripts).contentGaps
                     = <<>>
              /\ SuccessRecord(channel_urls[idx], intelligence_report, transcripts)
                     .contentGapsFound = 0
        /\ \A k \in 1..Len(dataset) :
              dataset[k].status = "success" =>
                  dataset[k].contentGaps = <<>> /\ dataset[k].contentGapsFound = 0

\* A channel of a run without competitors has been analysed.
C6_Witness ==
    /\ competitor_urls = <<>>
    /\ pc = "store_pdf"
    /\ intelligence_report.present
    /\ Len(gateway_calls) >= 2

\* C7: when transcript fetching is the only collaborator failure of the
\* iteration, the channel is analysed with transcripts = [] and does not end
\* in the failure handler.
C7_TranscriptFailureStillSucceeds ==
    faults = {"transcripts"} => (transcripts = <<>> /\ pc # "handler")

\* C8: within one channel the statistics come first and the gateway calls
\* follow in the order topics, gaps, keywords, recommendations; the gaps call
\* is made only with competitor data and is given the topics result, the
\* keywords call only with transcripts, and the recommendations call is given
\* the statistics and the topics, gaps and keywords results.
C8_AnalysisStepOrder ==
    LET analysis == SelectSeq(steps, LAMBDA x : x = "statistics" \/ IsGatewayRole(x))
    IN /\ \A j, k \in 1..Len(gateway_calls) :
             j < k => RoleRank(gateway_calls[j].role) < RoleRank(gateway_calls[k].role)
       /\ SelectSeq(steps, IsGatewayRole) =
             [k \in 1..Len(gateway_calls) |-> gateway_calls[k].role]
       /\ analysis # <<>> => analysis[1] = "statistics"
       /\ \A k \in 1..Len(gateway_calls) :
             LET call == gateway_calls[k]
             IN /\ call.stats = _compute_statistics(channel_data)
                /\ k > 1 => gateway_calls[1].role = "topics"
                /\ call.role = "gaps" =>
                      competitor_data # <<>> /\ call.topics = ResultOf("topics")
                /\ call.role = "keywords" => transcripts # <<>>
                /\ call.role = "recommendations" =>
                      /\ call.topics = ResultOf("topics")
                      /\ call.gaps = ResultOf("gaps")
                      /\ call.keywords = ResultOf("keywords")

\* All four gateway calls of a channel have been made.
C8_Witness ==
    /\ Len(gateway_calls) = 4
    /\ ResultOf("topics") # <<>>
    /\ ResultOf("gaps") # <<>>
    /\ ResultOf("keywords") # <<>>

DatasetInInputOrder ==
    \A j, k \in 1..Len(dataset) :
        j < k => UrlIndex(dataset[j].channelUrl) < UrlIndex(dataset[k].channelUrl)

\* C9: channels are processed one at a time in input order: an external call
\* or record push is never followed by one made for an earlier channel, and
\* the records are in the sink in the order of the input URLs.
C9_ChannelsInInputOrder ==
    /\ [](DatasetInInputOrder /\ last_call.ch <= idx)
    /\ [][last_call'.ch >= last_call.ch]_vars

\* Two channels have been processed and each has its record.
C9_Witness ==
    /\ pc = "done"
    /\ Len(dataset) = 2
    /\ dataset[1].channelUrl = "u1"
    /\ dataset[2].channelUrl = "u2"

\* C10: once the run is cancelled while channel i is processed, the records
\* pushed before stay in the sink as they were, and no external call or
\* record push is made for a later channel.
C10_CancellationStopsRun ==
    cancelled_at > 0 =>
        /\ idx = cancelled_at
        /\ last_call.ch <= cancelled_at
        /\ Len(dataset_at_cancel) <= Len(dataset)
        /\ \A k \in 1..Len(dataset_at_cancel) : dataset[k] = dataset_at_cancel[k]
        /\ \A k \in 1..Len(dataset) : UrlIndex(dataset[k].channelUrl) <= cancelled_at

\* The run was cancelled in channel 2's iteration with channel 1's record in
\* the sink.
C10_Witness ==
    /\ cancelled_at = 2
    /\ pc = "cancelled"
    /\ Len(dataset_at_cancel) = 1
    /\ dataset = dataset_at_cancel

\* ---------------------------------------------------------- the report
IsPrefix(s, t) == Len(s) <= Len(t) /\ \A k \in 1..Len(s) : s[k] = t[k]

\* out is upstream cut at cap: never longer than cap, a prefix of upstream,
\* and upstream itself when upstream is no longer than cap.
CutAt(out, upstream, cap) ==
    /\ Len(out) <= cap
    /\ IsPrefix(out, upstream)
    /\ Len(upstream) <= cap => out = upstream

\* What the steps of the current analyze_channel call hand to the report.
UpstreamTopics == _extract_topics(arg.channel_data, arg.answers.topics).value

\* The gaps and the keywords stay [] when their step is not entered.
UpstreamGaps ==
    IF arg.competitor_data = <<>> THEN <<>>
    ELSE _find_content_gaps(arg.channel_data, arg.competitor_data, UpstreamTopics,
                            arg.answers.gaps).value

UpstreamKeywords ==
    IF arg.transcripts = <<>> THEN <<>>
    ELSE _extract_keyword_opportunities(arg.transcripts, arg.answers.keywords).value

\* The list the recommendations answer holds, or the fallback's list.
UpstreamRecommendations ==
    LET got == CallAndGet(arg.answers.recommendations)
    IN IF got.exc = "none" THEN got.value ELSE _fallback_recommendations

\* C11: in every report analyze_channel returns, the topics and the gaps are
\* cut at 10, the keywords at 15 and the recommendations at 7: each is a
\* prefix of its upstream sequence no longer than the cap, and an upstream
\* sequence no longer than the cap is in the report unchanged.
C11_ReportCaps ==
    (fn = "analyze_channel" /\ ret.exc = "none") =>
        /\ CutAt(ret.value.top_performing_topics, UpstreamTopics, 10)
        /\ CutAt(ret.value.content_gaps, UpstreamGaps, 10)
        /\ CutAt(ret.value.keyword_opportunities, UpstreamKeywords, 15)
        /\ CutAt(ret.value.actionable_recommendations, UpstreamRecommendations, 7)

\* A report whose four sequences were all longer than their caps upstream.
C11_Witness ==
    /\ fn = "analyze_channel"
    /\ ret.exc = "none"
    /\ Len(UpstreamTopics) > 10 /\ Len(ret.value.top_performing_topics) = 10
    /\ Len(UpstreamGaps) > 10 /\ Len(ret.value.content_gaps) = 10
    /\ Len(UpstreamKeywords) > 15 /\ Len(ret.value.keyword_opportunities) = 15
    /\ Len(UpstreamRecommendations) > 7 /\ Len(ret.value.actionable_recommendations) = 7

\* ---------------------------------------------------------- the topics
\* C12: whenever the topics call raises or its answer holds no usable JSON,
\* the topics _extract_topics returns are the word-frequency fallback over the
\* titles of the analysed videos (the first twenty).
C12_TotalFailureFallsBack ==
    (/\ fn = "_extract_topics"
     /\ ret.exc = "none"
     /\ arg.resp.k \in {"raise", "nobrace", "badbrace"})
        => ret.value = _fallback_topics(Take(arg.channel_data.videos, 20))

\* -------------------------------------------------------- the JSON parser
\* C13: _parse_json never raises: for every response text it returns the
\* parsed value or an empty structure.
C13_ParseJsonNeverRaises ==
    (fn = "_parse_json" /\ ret # NotCalled) =>
        /\ ret.exc = "none"
        /\ \/ ret.value = Parsed(arg.shape, arg.items)
           \/ ret.value = Parsed("nokey", <<>>)

\* ------------------------------------------------------- the statistics
\* The view counts of all the videos, a zero included.
AllViews == [k \in 1..Len(arg.channel_data.videos) |-> arg.channel_data.videos[k].views]

\* The view counts that are not zero.
ViewsBearing == SelectSeq(AllViews, NonZero)

Computed == fn = "_compute_statistics" /\ ret # NotCalled

\* C14: avg_views is the truncated mean of the views of all the videos whose
\* views field is there, a video with 0 views counting in the denominator;
\* for an empty list avg_views is 0 and growth_trend is 'Insufficient Data'.
C14_MeanCountsZeroViews ==
    Computed =>
        IF AllViews = <<>>
        THEN ret.value.avg_views = 0 /\ ret.value.growth_trend = "Insufficient Data"
        ELSE ret.value.avg_views = SumSeq(AllViews) \div Len(AllViews)

\* C15: with fewer than 6 videos that bear views, the empty video list
\* included, consistency_score is exactly 50 (500 tenths).
C15_FewViewsScoreFifty ==
    (Computed /\ Len(ViewsBearing) < 6) => ret.value.consistency_score = 500

\* C16: growth_trend is 'Insufficient Data' exactly when fewer than 10 videos
\* bear views; otherwise it is the class of the growth percentage of the mean
\* of the second half over the mean of the first floor(n/2) views: above 20
\* Strong Growth, above 0 Steady Growth, above -20 Stable, else Declining, a
\* growth of exactly 20, 0 or -20 falling in the lower class; and the twelve
\* zigzag views give avg_views 379 and Strong Growth.
C16_GrowthClassifiedExactly ==
    Computed =>
        /\ ret.value.growth_trend =
              IF Len(ViewsBearing) < 10 THEN "Insufficient Data"
              ELSE GrowthTrendExact(ViewsBearing)
        /\ AllViews = ZigZagViews =>
              ret.value.avg_views = 379 /\ ret.value.growth_trend = "Strong Growth"

NamesWeekday(v) == v.published.nonempty /\ v.published.days # {}

\* The weekdays of the publish strings that name one, in video order.
NamedWeekdays ==
    LET named == SelectSeq(arg.channel_data.videos, NamesWeekday)
    IN [k \in 1..Len(named) |-> _extract_day_of_week(named[k].published)]

\* C17: best_posting_day is the most frequent weekday among the publish
\* strings, the first encountered of those tied, and 'Tuesday' when no publish
\* string names a weekday.
C17_BestDayAmongNamedWeekdays ==
    Computed =>
        ret.value.best_posting_day =
            IF NamedWeekdays = <<>> THEN "Tuesday" ELSE MostCommon(NamedWeekdays)

\* ------------------------------------------------- the fallback topics
\* How often the long word `text` occurs in the titles of the call's videos.
WordCount(text) ==
    Cardinality({<<i, j>> \in (1..Len(arg.videos)) \X (1..5) :
                    /\ j <= Len(arg.videos[i].title)
                    /\ arg.videos[i].title[j].text = text
                    /\ arg.videos[i].title[j].len > 4})

\* The long words of the titles.
LongWords ==
    {arg.videos[i].title[j].text : <<i, j>> \in
        {<<i, j>> \in (1..Len(arg.videos)) \X (1..5) :
            j <= Len(arg.videos[i].title) /\ arg.videos[i].title[j].len > 4}}

TotalViews == SumSeq([k \in 1..Len(arg.videos) |-> arg.videos[k].views])

\* C18: _fallback_topics returns at most 5 topics, one for each of the most
\* frequent title words longer than 4 characters, the most frequent first;
\* every topic has avgViews = floor(total views / number of videos),
\* opportunity 'medium' and videoCount equal to its word's count; two titles
\* that share 'amazing' and 'gadget', with 1000 views in all, give a top topic
\* with avgViews 500.
C18_FallbackTopics ==
    (fn = "_fallback_topics" /\ ret # NotCalled) =>
        LET out == ret.value
            names == {out[k].name : k \in 1..Len(out)}
        IN /\ ret.exc = "none"
           /\ Len(out) = IF Cardinality(LongWords) < 5 THEN Cardinality(LongWords) ELSE 5
           /\ Cardinality(names) = Len(out)
           /\ names \subseteq LongWords
           /\ \A k \in 1..Len(out) :
                 /\ out[k].videoCount = WordCount(out[k].name)
                 /\ out[k].avgViews * Len(arg.videos) <= TotalViews
                 /\ TotalViews < (out[k].avgViews + 1) * Len(arg.videos)
                 /\ out[k].opportunity = "medium"
                 /\ k > 1 => out[k - 1].videoCount >= out[k].videoCount
                 /\ \A w \in LongWords \ names : WordCount(w) <= out[k].videoCount
           /\ (/\ Len(arg.videos) = 2
               /\ TotalViews = 1000
               /\ WordCount("amazing") = 2
               /\ WordCount("gadget") = 2) => out[1].avgViews = 500

\* Seven long words, of which the five most frequent were returned, and an
\* average that is not a whole number.
C18_Witness ==
    /\ fn = "_fallback_topics"
    /\ ret # NotCalled
    /\ Cardinality(LongWords) = 7
    /\ Len(ret.value) = 5
    /\ ret.value[1].videoCount = 2
    /\ TotalViews % Len(arg.videos) # 0

\* ------------------------------------------------------- the raw counts
\* A decimal numeral: digits with at most one point among them.
IsNumeral(chars) ==
    /\ \E k \in 1..Len(chars) : IsDigit(chars[k])
    /\ \A k \in 1..Len(chars) : IsDigit(chars[k]) \/ chars[k] = "."
    /\ Cardinality({k \in 1..Len(chars) : chars[k] = "."}) <= 1

\* The numeral's digits as one number, and the power of ten its point sets.
NumeralDigits(chars) == DigitsValue(SelectSeq(chars, IsDigit))
NumeralScale(chars) ==
    IF \E k \in 1..Len(chars) : chars[k] = "."
    THEN 10^(Len(chars) - (CHOOSE k \in 1..Len(chars) : chars[k] = "."))
    ELSE 1

SuffixMultiplier(c) ==
    CASE c \in {"K", "k"} -> 1000
      [] c \in {"M", "m"} -> 1000000
      [] c \in {"B", "b"} -> 1000000000
      [] OTHER -> 0

\* C19: _parse_number returns an int as it is, the value of comma-grouped
\* digits, the number before a suffix K, M or B (either case) times 10^3, 10^6
\* or 10^9, and 0 for a value that cannot be parsed.
C19_ParseNumberExact ==
    (fn = "_parse_number" /\ ret.exc = "none") =>
        /\ arg.kind = "int" => ret.value = arg.n
        /\ arg.kind = "other" => ret.value = 0
        /\ arg.kind = "str" =>
              LET chars == arg.chars
                  body == SubSeq(chars, 1, Len(chars) - 1)
              IN /\ (/\ \E k \in 1..Len(chars) : IsDigit(chars[k])
                     /\ \A k \in 1..Len(chars) : IsDigit(chars[k]) \/ chars[k] = ",")
                        => ret.value = NumeralDigits(chars)
                 /\ (/\ chars # <<>>
                     /\ SuffixMultiplier(chars[Len(chars)]) # 0
                     /\ IsNumeral(body))
                        => ret.value = NumeralDigits(body)
                               * (SuffixMultiplier(chars[Len(chars)]) \div NumeralScale(body))
                 /\ (\E k \in 1..Len(chars) :
                        /\ ~IsDigit(chars[k])
                        /\ chars[k] \notin {",", ".", " "}
                        /\ SuffixMultiplier(chars[k]) = 0)
                        => ret.value = 0

\* ---------------------------------------------------------- the keywords
\* The current channel has no transcript to read: they are disabled, the
\* channel has no video id, or their fetch failed.
TranscriptsUnavailable ==
    \/ ~include_transcripts
    \/ channel_data.present /\ channel_data.video_ids = <<>>
    \/ "transcripts" \in faults

\* C20: the keywords step is entered and its gateway call is made only with
\* a non-empty transcript list; when transcripts are disabled, the channel has
\* no video id or the transcript fetch failed, the list is empty, no keywords
\* call is made and the report's keyword_opportunities is [].
C20_KeywordsOnlyWithTranscripts ==
    /\ (pc = "keywords" \/ "keywords" \in Range(steps)) => transcripts # <<>>
    /\ \A k \in 1..Len(gateway_calls) :
          gateway_calls[k].role = "keywords" => transcripts # <<>>
    /\ (transcripts = <<>> /\ intelligence_report.present) =>
          intelligence_report.keyword_opportunities = <<>>
    /\ TranscriptsUnavailable =>
          /\ transcripts = <<>>
          /\ pc # "keywords"
          /\ \A k \in 1..Len(gateway_calls) : gateway_calls[k].role # "keywords"
          /\ intelligence_report.present =>
                intelligence_report.keyword_opportunities = <<>>

\* A channel with video ids whose transcript fetch failed has its report,
\* made without a keywords call.
C20_Witness ==
    /\ include_transcripts
    /\ channel_data.video_ids # <<>>
    /\ "transcripts" \in faults
    /\ pc = "store_pdf"
    /\ intelligence_report.present
    /\ Len(gateway_calls) >= 2

\* --------------------------------------------- the analysis of any channel
\* The snapshot has a video, and every video has a title, which may be empty,
\* and view, like and comment counts that are integers from 0 up.
PlainSnapshot(snapshot) ==
    /\ snapshot.present
    /\ snapshot.videos # <<>>
    /\ \A k \in 1..Len(snapshot.videos) :
          /\ snapshot.videos[k].views >= 0
          /\ snapshot.videos[k].likes >= 0
          /\ snapshot.videos[k].comments >= 0

\* C21: for every snapshot with at least one video, each with a title that
\* may be empty and view, like and comment counts that may be 0, and whatever
\* the gateway does, analyze_channel returns a report: no exception leaves it
\* while it computes the statistics or builds a prompt.
C21_AnalyzeChannelReturnsReport ==
    (/\ fn = "analyze_channel"
     /\ ret # NotCalled
     /\ PlainSnapshot(arg.channel_data)) => ret.exc = "none"

\* ---------------------------------------------------------- the exports
Artifact(channel_url, kind) == [channel |-> channel_url, kind |-> kind]

\* The channel's PDF is in the store, and its CSV after it.
BothArtifactsStored(channel_url) ==
    \E i, j \in 1..Len(kv_store) :
        /\ i < j
        /\ kv_store[i] = Artifact(channel_url, "pdf")
        /\ kv_store[j] = Artifact(channel_url, "csv")

SuccessOnlyWithArtifacts ==
    \A k \in 1..Len(dataset) :
        dataset[k].status = "success" => BothArtifactsStored(dataset[k].channelUrl)

\* A channel has one record at most: one with a 'failed' record has no other.
OneRecordEach ==
    \A j, k \in 1..Len(dataset) : j # k => dataset[j].channelUrl # dataset[k].channelUrl

\* In this step generate_pdf raised, the PDF's store raised, or generate_csv
\* raised.
ExportRaises ==
    \/ /\ pc = "recommendations"
       /\ "generate_pdf" \in Range(steps')
       /\ generate_pdf(intelligence_report', channel_data).exc # "none"
    \/ /\ pc = "store_pdf"
       /\ "store" \in faults' \ faults
    \/ /\ pc = "store_pdf"
       /\ "generate_csv" \in Range(steps')
       /\ generate_csv(intelligence_report).exc # "none"

\* The step of an export that raises pushes nothing and goes to the handler.
ExportFailureGoesToHandler ==
    ExportRaises => (pc' = "handler" /\ dataset' = dataset)

\* The handler's step, unless the run is cancelled in it, pushes the failed
\* record of the current channel and nothing else, and stores nothing.
HandlerPushesFailed ==
    (pc = "handler" /\ cancelled_at' = 0) =>
        /\ dataset' = Append(dataset, FailedRecord(channel_urls[idx], err))
        /\ dataset'[Len(dataset')].status = "failed"
        /\ kv_store' = kv_store

====
